---- MODULE Spec2Model ----
(***************************************************************************)
(* backend/server.py: a FastAPI router over two MongoDB collections,       *)
(* status_checks and trust_metrics.  Four handlers: root,                  *)
(* create_status_check, get_status_checks and get_metrics.  Every handler  *)
(* is a coroutine: the code between two awaits runs without interruption,  *)
(* and each awaited store call is one step of the store, which may be      *)
(* interleaved with the steps of other requests.                           *)
(***************************************************************************)
EXTENDS Integers, Sequences, FiniteSets, TLC

\* ------------------------------------------------------------- bounds
\* request slots (each slot serves one request)
MaxReq == 2
\* largest value of the wall clock
MaxTime == 1
\* store calls that may fail over a run
MaxFail == 1
\* items of the largest TrustMetrics document written directly to the store
MaxItems == 7
\* largest number of status-check records already in the store at start
MaxPre == 1500

\* ---------------------------------------------------------- constants
\* to_list(1000)
ListLimit == 1000

Req == 1..MaxReq
ClientNames == {"acme", "globex"}

\* Python's None: the result of find_one on an empty collection, a handler
\* local not yet assigned, the default of MetricItem.icon.
None == [none |-> TRUE]

Min(a, b) == IF a <= b THEN a ELSE b

\* ------------------------------------------------------------- models
\* str(uuid.uuid4()): the n-th identifier drawn by this process
Uuid4(n) == "uuid-" \o ToString(n)

\* class StatusCheck(BaseModel): the fields given are taken, a missing id
\* or timestamp comes from its default_factory, any other key is ignored.
StatusCheck(d, fresh, t) ==
    [id          |-> IF "id" \in DOMAIN d THEN d.id ELSE fresh,
     client_name |-> d.client_name,
     timestamp   |-> IF "timestamp" \in DOMAIN d THEN d.timestamp ELSE t]

\* class MetricItem(BaseModel): icon is optional and defaults to None.
MetricItem(d) ==
    [key   |-> d.key,
     label |-> d.label,
     value |-> d.value,
     icon  |-> IF "icon" \in DOMAIN d THEN d.icon ELSE None]

\* Mutant of TrustMetrics: the stored id is not read, the default_factory
\* always draws a new one.
TrustMetricsFreshId(d, fresh, t) ==
    [id         |-> fresh,
     items      |-> [i \in DOMAIN d.items |-> MetricItem(d.items[i])],
     updated_at |-> IF "updated_at" \in DOMAIN d THEN d.updated_at ELSE t]

\* class TrustMetrics(BaseModel): items are parsed one by one, in order.
TrustMetrics(d, fresh, t) ==
    [id         |-> IF "id" \in DOMAIN d THEN d.id ELSE fresh,
     items      |-> [i \in DOMAIN d.items |-> MetricItem(d.items[i])],
     updated_at |-> IF "updated_at" \in DOMAIN d THEN d.updated_at ELSE t]

\* The hardcoded items of the default document.  The labels are Arabic text
\* in the source and are written here by their meaning.
DefaultItems ==
    << [key |-> "rating",    label |-> "customer rating",   value |-> "4.9/5", icon |-> "Star"],
       [key |-> "shipments", label |-> "shipping operations", value |-> "120K+", icon |-> "Zap"],
       [key |-> "downloads", label |-> "number of downloads", value |-> "85K+",  icon |-> "Download"],
       [key |-> "uptime",    label |-> "response time",     value |-> "1.2s",  icon |-> "Gauge"] >>

\* doc.pop("_id", None): the dict without its _id key
PopId(d) == [k \in DOMAIN d \ {"_id"} |-> d[k]]

\* ---------------------------------------------------------- the store
\* Mutant of InsertOne: the document replaces the collection's content
\* (replace_one with upsert in place of insert_one).
InsertOneReplace(coll, d, oid) == <<[_id |-> oid] @@ d>>

\* insert_one(document): the driver adds a fresh _id, the collection grows
\* by that one document at its end.
InsertOne(coll, d, oid) == Append(coll, [_id |-> oid] @@ d)

\* Mutant of FindOne: a filter that matches no stored document.
FindOneFiltered(coll) == None

\* find_one(): the first document of the collection, or None
FindOne(coll) == IF Len(coll) = 0 THEN None ELSE coll[1]

\* Mutant of ToList: the length is not applied (to_list(None)).
ToListUnbounded(coll, length) == coll

\* find().to_list(length): the first `length` documents, in store order
ToList(coll, length) == SubSeq(coll, 1, Min(Len(coll), length))

\* one entry of a request's log of store calls
Call(op, coll, size, ok) == [op |-> op, coll |-> coll, size |-> size, ok |-> ok]

\* A TrustMetrics document written directly into the store, with n items.
ManualItems(n) ==
    [i \in 1..n |-> [key   |-> "k" \o ToString(i),
                     label |-> "label " \o ToString(i),
                     value |-> ToString(i * 10) \o "%",
                     icon  |-> IF i % 2 = 0 THEN "Star" ELSE "Gauge"]]

ManualMetrics(n) ==
    [_id |-> 1, id |-> "manual-" \o ToString(n), items |-> ManualItems(n), updated_at |-> 0]

\* n status-check records left in the store by earlier runs
StoredStatus(n) ==
    [i \in 1..n |-> [_id |-> i, id |-> "stored-" \o ToString(i),
                     client_name |-> "acme", timestamp |-> 0]]

VARIABLES
    status_checks,   \* db.status_checks, in store order
    trust_metrics,   \* db.trust_metrics, in store order
    kind,            \* per slot: the handler serving the request, or "none"
    pc,              \* per slot: where the handler stands
    input,           \* per slot: the request body (create_status_check)
    doc,             \* per slot: what the awaited read returned
    obj,             \* per slot: the model object the handler built
    result,          \* per slot: the value returned to the caller
    err,             \* per slot: the exception that ended the request
    calls,           \* per slot: the store calls issued, in order
    before,          \* per slot: the requests that had returned when it began
    now,             \* datetime.utcnow()
    uuids,           \* identifiers drawn so far
    oids,            \* _id values given out so far
    failures,        \* store calls that have failed so far
    manual           \* the document written directly to trust_metrics, or None

vars == <<status_checks, trust_metrics, kind, pc, input, doc, obj, result, err,
          calls, before, now, uuids, oids, failures, manual>>

store == <<status_checks, trust_metrics>>
locals == <<input, doc, obj, result, err, before>>

InitRequests ==
    /\ kind = [r \in Req |-> "none"]
    /\ pc = [r \in Req |-> "idle"]
    /\ input = [r \in Req |-> None]
    /\ doc = [r \in Req |-> None]
    /\ obj = [r \in Req |-> None]
    /\ result = [r \in Req |-> None]
    /\ err = [r \in Req |-> ""]
    /\ calls = [r \in Req |-> <<>>]
    /\ before = [r \in Req |-> {}]
    /\ now = 0
    /\ uuids = 0
    /\ failures = 0

\* The process starts on a store that is empty or holds one TrustMetrics
\* document written directly.
Init ==
    /\ InitRequests
    /\ status_checks = <<>>
    /\ manual \in {None} \cup {ManualMetrics(n) : n \in {1, MaxItems}}
    /\ trust_metrics = IF manual = None THEN <<>> ELSE <<manual>>
    /\ oids = Len(trust_metrics)

\* The process starts on a store whose status_checks is already filled.
InitLimit ==
    /\ InitRequests
    /\ \E n \in {0, ListLimit - 1, ListLimit, ListLimit + 1, MaxPre} :
          status_checks = StoredStatus(n)
    /\ manual = None
    /\ trust_metrics = <<>>
    /\ oids = Len(status_checks)

Returned == {q \in Req : pc[q] = "done"}

\* Requests are anonymous: a new request takes the lowest free slot.
Free(r) == pc[r] = "idle" /\ \A q \in 1..(r - 1) : pc[q] # "idle"

\* ----------------------------------------------------------------- root
\* @api_router.get("/"): returns the message, no store call
Root(r) ==
    /\ Free(r)
    /\ kind' = [kind EXCEPT ![r] = "root"]
    /\ before' = [before EXCEPT ![r] = Returned]
    /\ result' = [result EXCEPT ![r] = [message |-> "Hello World"]]
    /\ pc' = [pc EXCEPT ![r] = "done"]
    /\ UNCHANGED <<store, input, doc, obj, err, calls, now, uuids, oids, failures, manual>>

\* -------------------------------------------------- create_status_check
\* status_obj = StatusCheck(**input.dict()), then insert_one is awaited
CreateStatusCheck(r, c) ==
    /\ Free(r)
    /\ kind' = [kind EXCEPT ![r] = "create_status_check"]
    /\ before' = [before EXCEPT ![r] = Returned]
    /\ input' = [input EXCEPT ![r] = [client_name |-> c]]
    /\ obj' = [obj EXCEPT ![r] = StatusCheck([client_name |-> c], Uuid4(uuids + 1), now)]
    /\ uuids' = uuids + 1
    /\ pc' = [pc EXCEPT ![r] = "insert_one"]
    /\ UNCHANGED <<store, doc, result, err, calls, now, oids, failures, manual>>

\* Mutant of CreateInsertOne: the record goes to the other collection.
CreateInsertOneWrongCollection(r) ==
    /\ kind[r] = "create_status_check" /\ pc[r] = "insert_one"
    /\ \/ /\ trust_metrics' = InsertOne(trust_metrics, obj[r], oids + 1)
          /\ oids' = oids + 1
          /\ calls' = [calls EXCEPT ![r] =
                 Append(@, Call("insert_one", "trust_metrics", Len(status_checks), TRUE))]
          /\ pc' = [pc EXCEPT ![r] = "inserted"]
          /\ UNCHANGED <<err, failures>>
       \/ /\ failures < MaxFail
          /\ failures' = failures + 1
          /\ calls' = [calls EXCEPT ![r] =
                 Append(@, Call("insert_one", "trust_metrics", Len(status_checks), FALSE))]
          /\ err' = [err EXCEPT ![r] = "StoreUnavailable"]
          /\ pc' = [pc EXCEPT ![r] = "error"]
          /\ UNCHANGED <<trust_metrics, oids>>
    /\ UNCHANGED <<status_checks, kind, input, doc, obj, result, before, now, uuids, manual>>

\* the store executes db.status_checks.insert_one(status_obj.dict())
CreateInsertOne(r) ==
    /\ kind[r] = "create_status_check" /\ pc[r] = "insert_one"
    /\ \/ /\ status_checks' = InsertOne(status_checks, obj[r], oids + 1)
          /\ oids' = oids + 1
          /\ calls' = [calls EXCEPT ![r] =
                 Append(@, Call("insert_one", "status_checks", Len(status_checks), TRUE))]
          /\ pc' = [pc EXCEPT ![r] = "inserted"]
          /\ UNCHANGED <<err, failures>>
       \/ /\ failures < MaxFail
          /\ failures' = failures + 1
          /\ calls' = [calls EXCEPT ![r] =
                 Append(@, Call("insert_one", "status_checks", Len(status_checks), FALSE))]
          /\ err' = [err EXCEPT ![r] = "StoreUnavailable"]
          /\ pc' = [pc EXCEPT ![r] = "error"]
          /\ UNCHANGED <<status_checks, oids>>
    /\ UNCHANGED <<trust_metrics, kind, input, doc, obj, result, before, now, uuids, manual>>

\* return status_obj
CreateReturn(r) ==
    /\ kind[r] = "create_status_check" /\ pc[r] = "inserted"
    /\ result' = [result EXCEPT ![r] = obj[r]]
    /\ pc' = [pc EXCEPT ![r] = "done"]
    /\ UNCHANGED <<store, kind, input, doc, obj, err, calls, before, now, uuids, oids,
                   failures, manual>>

\* ---------------------------------------------------- get_status_checks
\* the handler is entered and find().to_list(1000) is awaited
GetStatusChecks(r) ==
    /\ Free(r)
    /\ kind' = [kind EXCEPT ![r] = "get_status_checks"]
    /\ before' = [before EXCEPT ![r] = Returned]
    /\ pc' = [pc EXCEPT ![r] = "find"]
    /\ UNCHANGED <<store, input, doc, obj, result, err, calls, now, uuids, oids,
                   failures, manual>>

\* Mutant of ListFind: a failed read is issued again instead of raised.
ListFindRetry(r) ==
    /\ kind[r] = "get_status_checks" /\ pc[r] = "find"
    /\ \/ /\ doc' = [doc EXCEPT ![r] = ToList(status_checks, ListLimit)]
          /\ calls' = [calls EXCEPT ![r] =
                 Append(@, Call("find", "status_checks", Len(status_checks), TRUE))]
          /\ pc' = [pc EXCEPT ![r] = "found"]
          /\ UNCHANGED failures
       \/ /\ failures < MaxFail
          /\ failures' = failures + 1
          /\ calls' = [calls EXCEPT ![r] =
                 Append(@, Call("find", "status_checks", Len(status_checks), FALSE))]
          /\ UNCHANGED <<doc, pc>>
    /\ UNCHANGED <<store, kind, input, obj, result, err, before, now, uuids, oids, manual>>

\* the store executes db.status_checks.find().to_list(1000)
ListFind(r) ==
    /\ kind[r] = "get_status_checks" /\ pc[r] = "find"
    /\ \/ /\ doc' = [doc EXCEPT ![r] = ToList(status_checks, ListLimit)]
          /\ calls' = [calls EXCEPT ![r] =
                 Append(@, Call("find", "status_checks", Len(status_checks), TRUE))]
          /\ pc' = [pc EXCEPT ![r] = "found"]
          /\ UNCHANGED <<err, failures>>
       \/ /\ failures < MaxFail
          /\ failures' = failures + 1
          /\ calls' = [calls EXCEPT ![r] =
                 Append(@, Call("find", "status_checks", Len(status_checks), FALSE))]
          /\ err' = [err EXCEPT ![r] = "StoreUnavailable"]
          /\ pc' = [pc EXCEPT ![r] = "error"]
          /\ UNCHANGED doc
    /\ UNCHANGED <<store, kind, input, obj, result, before, now, uuids, oids, manual>>

\* return [StatusCheck(**status_check) for status_check in status_checks]
\* (every stored record carries id and timestamp: no default is drawn)
ListReturn(r) ==
    /\ kind[r] = "get_status_checks" /\ pc[r] = "found"
    /\ result' = [result EXCEPT ![r] =
           [i \in DOMAIN doc[r] |-> StatusCheck(doc[r][i], Uuid4(uuids + i), now)]]
    /\ pc' = [pc EXCEPT ![r] = "done"]
    /\ UNCHANGED <<store, kind, input, doc, obj, err, calls, before, now, uuids, oids,
                   failures, manual>>

\* ----------------------------------------------------------- get_metrics
\* the handler is entered and find_one() is awaited
GetMetrics(r) ==
    /\ Free(r)
    /\ kind' = [kind EXCEPT ![r] = "get_metrics"]
    /\ before' = [before EXCEPT ![r] = Returned]
    /\ pc' = [pc EXCEPT ![r] = "find_one"]
    /\ UNCHANGED <<store, input, doc, obj, result, err, calls, now, uuids, oids,
                   failures, manual>>

\* the store executes db.trust_metrics.find_one()
MetricsFindOne(r) ==
    /\ kind[r] = "get_metrics" /\ pc[r] = "find_one"
    /\ \/ /\ doc' = [doc EXCEPT ![r] = FindOne(trust_metrics)]
          /\ calls' = [calls EXCEPT ![r] =
                 Append(@, Call("find_one", "trust_metrics", Len(trust_metrics), TRUE))]
          /\ pc' = [pc EXCEPT ![r] = "read"]
          /\ UNCHANGED <<err, failures>>
       \/ /\ failures < MaxFail
          /\ failures' = failures + 1
          /\ calls' = [calls EXCEPT ![r] =
                 Append(@, Call("find_one", "trust_metrics", Len(trust_metrics), FALSE))]
          /\ err' = [err EXCEPT ![r] = "StoreUnavailable"]
          /\ pc' = [pc EXCEPT ![r] = "error"]
          /\ UNCHANGED doc
    /\ UNCHANGED <<store, kind, input, obj, result, before, now, uuids, oids, manual>>

\* Mutant of MetricsBranch: the default is returned without being inserted.
MetricsBranchNoPersist(r) ==
    /\ kind[r] = "get_metrics" /\ pc[r] = "read"
    /\ IF doc[r] = None
       THEN /\ obj' = [obj EXCEPT ![r] =
                   TrustMetrics([items |-> DefaultItems], Uuid4(uuids + 1), now)]
            /\ result' = [result EXCEPT ![r] = obj'[r]]
            /\ uuids' = uuids + 1
            /\ pc' = [pc EXCEPT ![r] = "done"]
            /\ UNCHANGED doc
       ELSE /\ doc' = [doc EXCEPT ![r] = PopId(@)]
            /\ result' = [result EXCEPT ![r] =
                   TrustMetrics(PopId(doc[r]), Uuid4(uuids + 1), now)]
            /\ pc' = [pc EXCEPT ![r] = "done"]
            /\ UNCHANGED <<obj, uuids>>
    /\ UNCHANGED <<store, kind, input, err, calls, before, now, oids, failures, manual>>

\* Mutant of MetricsBranch: the default is built and inserted whatever
\* find_one returned.
MetricsBranchAlwaysInsert(r) ==
    /\ kind[r] = "get_metrics" /\ pc[r] = "read"
    /\ obj' = [obj EXCEPT ![r] =
           TrustMetrics([items |-> DefaultItems], Uuid4(uuids + 1), now)]
    /\ uuids' = uuids + 1
    /\ pc' = [pc EXCEPT ![r] = "insert_one"]
    /\ UNCHANGED <<doc, result>>
    /\ UNCHANGED <<store, kind, input, err, calls, before, now, oids, failures, manual>>

\* if not doc: build the default and await insert_one(default.dict());
\* otherwise doc.pop("_id", None) and return TrustMetrics(**doc)
MetricsBranch(r) ==
    /\ kind[r] = "get_metrics" /\ pc[r] = "read"
    /\ IF doc[r] = None
       THEN /\ obj' = [obj EXCEPT ![r] =
                   TrustMetrics([items |-> DefaultItems], Uuid4(uuids + 1), now)]
            /\ uuids' = uuids + 1
            /\ pc' = [pc EXCEPT ![r] = "insert_one"]
            /\ UNCHANGED <<doc, result>>
       ELSE /\ doc' = [doc EXCEPT ![r] = PopId(@)]
            /\ result' = [result EXCEPT ![r] =
                   TrustMetrics(PopId(doc[r]), Uuid4(uuids + 1), now)]
            /\ pc' = [pc EXCEPT ![r] = "done"]
            /\ UNCHANGED <<obj, uuids>>
    /\ UNCHANGED <<store, kind, input, err, calls, before, now, oids, failures, manual>>

\* Mutant of MetricsInsertOne: the collection takes a single document, a
\* second insert is rejected as a duplicate.
MetricsInsertOneUnique(r) ==
    /\ kind[r] = "get_metrics" /\ pc[r] = "insert_one"
    /\ \/ /\ trust_metrics = <<>>
          /\ trust_metrics' = InsertOne(trust_metrics, obj[r], oids + 1)
          /\ oids' = oids + 1
          /\ calls' = [calls EXCEPT ![r] =
                 Append(@, Call("insert_one", "trust_metrics", Len(trust_metrics), TRUE))]
          /\ pc' = [pc EXCEPT ![r] = "inserted"]
          /\ UNCHANGED <<err, failures>>
       \/ /\ trust_metrics # <<>>
          /\ calls' = [calls EXCEPT ![r] =
                 Append(@, Call("insert_one", "trust_metrics", Len(trust_metrics), FALSE))]
          /\ err' = [err EXCEPT ![r] = "DuplicateKeyError"]
          /\ pc' = [pc EXCEPT ![r] = "error"]
          /\ UNCHANGED <<trust_metrics, oids, failures>>
       \/ /\ failures < MaxFail
          /\ failures' = failures + 1
          /\ calls' = [calls EXCEPT ![r] =
                 Append(@, Call("insert_one", "trust_metrics", Len(trust_metrics), FALSE))]
          /\ err' = [err EXCEPT ![r] = "StoreUnavailable"]
          /\ pc' = [pc EXCEPT ![r] = "error"]
          /\ UNCHANGED <<trust_metrics, oids>>
    /\ UNCHANGED <<status_checks, kind, input, doc, obj, result, before, now, uuids, manual>>

\* Mutant of MetricsInsertOne: a failed insert is caught and the handler
\* goes on to return the default.
MetricsInsertOneSwallow(r) ==
    /\ kind[r] = "get_metrics" /\ pc[r] = "insert_one"
    /\ \/ /\ trust_metrics' = InsertOne(trust_metrics, obj[r], oids + 1)
          /\ oids' = oids + 1
          /\ calls' = [calls EXCEPT ![r] =
                 Append(@, Call("insert_one", "trust_metrics", Len(trust_metrics), TRUE))]
          /\ UNCHANGED failures
       \/ /\ failures < MaxFail
          /\ failures' = failures + 1
          /\ calls' = [calls EXCEPT ![r] =
                 Append(@, Call("insert_one", "trust_metrics", Len(trust_metrics), FALSE))]
          /\ UNCHANGED <<trust_metrics, oids>>
    /\ pc' = [pc EXCEPT ![r] = "inserted"]
    /\ UNCHANGED <<status_checks, kind, input, doc, obj, result, err, before, now, uuids, manual>>

\* the store executes db.trust_metrics.insert_one(default.dict())
MetricsInsertOne(r) ==
    /\ kind[r] = "get_metrics" /\ pc[r] = "insert_one"
    /\ \/ /\ trust_metrics' = InsertOne(trust_metrics, obj[r], oids + 1)
          /\ oids' = oids + 1
          /\ calls' = [calls EXCEPT ![r] =
                 Append(@, Call("insert_one", "trust_metrics", Len(trust_metrics), TRUE))]
          /\ pc' = [pc EXCEPT ![r] = "inserted"]
          /\ UNCHANGED <<err, failures>>
       \/ /\ failures < MaxFail
          /\ failures' = failures + 1
          /\ calls' = [calls EXCEPT ![r] =
                 Append(@, Call("insert_one", "trust_metrics", Len(trust_metrics), FALSE))]
          /\ err' = [err EXCEPT ![r] = "StoreUnavailable"]
          /\ pc' = [pc EXCEPT ![r] = "error"]
          /\ UNCHANGED <<trust_metrics, oids>>
    /\ UNCHANGED <<status_checks, kind, input, doc, obj, result, before, now, uuids, manual>>

\* return default
MetricsReturn(r) ==
    /\ kind[r] = "get_metrics" /\ pc[r] = "inserted"
    /\ result' = [result EXCEPT ![r] = obj[r]]
    /\ pc' = [pc EXCEPT ![r] = "done"]
    /\ UNCHANGED <<store, kind, input, doc, obj, err, calls, before, now, uuids, oids,
                   failures, manual>>

\* ---------------------------------------------------------------- clock
Tick ==
    /\ now < MaxTime
    /\ now' = now + 1
    /\ UNCHANGED <<store, kind, pc, locals, calls, uuids, oids, failures, manual>>

Next ==
    \/ \E r \in Req : Root(r)
    \/ \E r \in Req, c \in ClientNames : CreateStatusCheck(r, c)
    \/ \E r \in Req : CreateInsertOne(r)
    \/ \E r \in Req : CreateReturn(r)
    \/ \E r \in Req : GetStatusChecks(r)
    \/ \E r \in Req : ListFind(r)
    \/ \E r \in Req : ListReturn(r)
    \/ \E r \in Req : GetMetrics(r)
    \/ \E r \in Req : MetricsFindOne(r)
    \/ \E r \in Req : MetricsBranch(r)
    \/ \E r \in Req : MetricsInsertOne(r)
    \/ \E r \in Req : MetricsReturn(r)
    \/ Tick

Spec == Init /\ [][Next]_vars

\* the status endpoints over a pre-filled status_checks collection
NextLimit ==
    \/ \E r \in Req, c \in ClientNames : CreateStatusCheck(r, c)
    \/ \E r \in Req : CreateInsertOne(r)
    \/ \E r \in Req : CreateReturn(r)
    \/ \E r \in Req : GetStatusChecks(r)
    \/ \E r \in Req : ListFind(r)
    \/ \E r \in Req : ListReturn(r)

SpecLimit == InitLimit /\ [][NextLimit]_vars

\* ---------------------------------------------------- reading the state
IsPrefix(s, t) == Len(s) <= Len(t) /\ SubSeq(t, 1, Len(s)) = s

Metrics(r) == kind[r] = "get_metrics"
Done(r) == pc[r] = "done"

\* r's find_one was executed by the store and found the collection empty
ObservedAbsent(r) ==
    Metrics(r) /\ calls[r] # <<>> /\ calls[r][1].ok /\ calls[r][1].size = 0

\* r's find_one was executed by the store and found a document
ObservedPresent(r) ==
    Metrics(r) /\ calls[r] # <<>> /\ calls[r][1].ok /\ calls[r][1].size > 0

\* the (key, value) pairs of a TrustMetrics value, in order
KeyValues(v) == [i \in DOMAIN v.items |-> <<v.items[i].key, v.items[i].value>>]

FourDefaults ==
    << <<"rating", "4.9/5">>, <<"shipments", "120K+">>,
       <<"downloads", "85K+">>, <<"uptime", "1.2s">> >>

\* a well-formed TrustMetrics value holding the four default items
ValidDefault(v) ==
    /\ DOMAIN v = {"id", "items", "updated_at"}
    /\ v.id # ""
    /\ \A i \in DOMAIN v.items : DOMAIN v.items[i] = {"key", "label", "value", "icon"}
    /\ KeyValues(v) = FourDefaults

\* every other get_metrics call began after r had returned
FirstAlone(r) ==
    \A q \in Req \ {r} : Metrics(q) => r \in before[q]

Writes(r) == {i \in DOMAIN calls[r] : calls[r][i].op = "insert_one"}
Collections(r) == {calls[r][i].coll : i \in DOMAIN calls[r]}
Ops(r) == [i \in DOMAIN calls[r] |-> calls[r][i].op]

\* --------------------------------------------------------------- claims

\* C1: on an empty trust_metrics, two get_metrics calls run one after the
\* other both return the four default items (rating 4.9/5, shipments 120K+,
\* downloads 85K+, uptime 1.2s, in that order), and every call that starts
\* after the first has returned reads back the one document the first call
\* inserted: the collection holds that single document and the later call
\* inserts nothing.
C1_SequentialDefault ==
    manual = None =>
      \A r1 \in Req :
        (Metrics(r1) /\ Done(r1) /\ FirstAlone(r1)) =>
          /\ KeyValues(result[r1]) = FourDefaults
          /\ \A r2 \in Req :
               (Metrics(r2) /\ Done(r2) /\ r1 \in before[r2]) =>
                 /\ KeyValues(result[r2]) = FourDefaults
                 /\ result[r2].items = result[r1].items
                 /\ result[r2].id = result[r1].id
                 /\ Len(trust_metrics) = 1
                 /\ PopId(trust_metrics[1]) = result[r1]
                 /\ Writes(r2) = {}

C1_Witness ==
    /\ manual = None
    /\ \E r1, r2 \in Req :
         /\ Metrics(r1) /\ Done(r1) /\ ObservedAbsent(r1)
         /\ Metrics(r2) /\ Done(r2) /\ r1 \in before[r2]
         /\ Len(trust_metrics) = 1

\* C2: when two get_metrics calls both execute find_one on the empty
\* collection before either inserts, neither ends in an error unless the
\* store itself was unavailable, and each one that returns returns a valid
\* TrustMetrics value with exactly the four default items.
C2_RaceNoError ==
    \A r1, r2 \in Req :
      (r1 # r2 /\ ObservedAbsent(r1) /\ ObservedAbsent(r2)) =>
        /\ failures = 0 => pc[r1] # "error"
        /\ err[r1] \in {"", "StoreUnavailable"}
        /\ Done(r1) => ValidDefault(result[r1]) /\ Len(result[r1].items) = 4

\* both racing calls have returned and the collection holds two defaults
C2_TwoDefaults ==
    \E r1, r2 \in Req :
      /\ r1 # r2 /\ ObservedAbsent(r1) /\ ObservedAbsent(r2)
      /\ Done(r1) /\ Done(r2)
      /\ Len(trust_metrics) = 2
      /\ \A i \in 1..2 : ValidDefault(PopId(trust_metrics[i]))

\* C3: when trust_metrics already holds a TrustMetrics document written
\* directly into the store, get_metrics returns its id, its items (same
\* elements, same order) and its updated_at, without the _id field.
C3_RoundTrip ==
    manual # None =>
      \A r \in Req :
        (Metrics(r) /\ Done(r)) =>
          /\ DOMAIN result[r] = {"id", "items", "updated_at"}
          /\ result[r].id = manual.id
          /\ result[r].items = manual.items
          /\ result[r].updated_at = manual.updated_at
          /\ trust_metrics[1] = manual

C3_Witness ==
    /\ manual # None
    /\ Len(manual.items) = 7
    /\ now > manual.updated_at
    /\ \E r \in Req : Metrics(r) /\ Done(r) /\ Len(result[r].items) = 7

\* C4 as stated: in any reachable store state, create_status_check called
\* with client_name c returns a StatusCheck with a non-empty id and
\* client_name c, and every get_status_checks call that starts after the
\* create has returned includes that record.
C4_Original ==
    \A r1 \in Req :
      (kind[r1] = "create_status_check" /\ Done(r1)) =>
        /\ result[r1].id # ""
        /\ result[r1].client_name = input[r1].client_name
        /\ \A r2 \in Req :
             (kind[r2] = "get_status_checks" /\ Done(r2) /\ r1 \in before[r2]) =>
               \E i \in DOMAIN result[r2] : result[r2][i] = result[r1]

\* C4 as amended: the same, the later list including the record whenever
\* the collection held fewer than 1000 records when the record was inserted.
C4_StatusLifecycle ==
    \A r1 \in Req :
      (kind[r1] = "create_status_check" /\ Done(r1)) =>
        /\ result[r1].id # ""
        /\ result[r1].client_name = input[r1].client_name
        /\ DOMAIN result[r1] = {"id", "client_name", "timestamp"}
        /\ \A r2 \in Req :
             (/\ kind[r2] = "get_status_checks" /\ Done(r2) /\ r1 \in before[r2]
              /\ calls[r1][1].size < 1000) =>
               \E i \in DOMAIN result[r2] : result[r2][i] = result[r1]

\* a record created as the 1000th of the collection, then listed
C4_Witness ==
    \E r1, r2 \in Req :
      /\ kind[r1] = "create_status_check" /\ Done(r1)
      /\ calls[r1][1].size = 999
      /\ input[r1].client_name = "acme"
      /\ kind[r2] = "get_status_checks" /\ Done(r2) /\ r1 \in before[r2]
      /\ result[r2][1000] = result[r1]

\* C5: get_status_checks returns exactly min(n, 1000) records when the
\* collection holds n records at the time of the read: never more than
\* 1000, and exactly 1000 from n = 1000 on; they are the first records of
\* the collection, in store order.
C5_ListLimit ==
    \A r \in Req :
      (kind[r] = "get_status_checks" /\ Done(r)) =>
        /\ Len(result[r]) = Min(calls[r][1].size, 1000)
        /\ Len(result[r]) <= 1000
        /\ calls[r][1].size >= 1000 => Len(result[r]) = 1000
        /\ \A i \in DOMAIN result[r] : result[r][i].id = status_checks[i].id

C5_Witness ==
    \E r \in Req :
      /\ kind[r] = "get_status_checks" /\ Done(r)
      /\ calls[r][1].size >= 1500
      /\ Len(result[r]) = 1000

\* C6: a store failure inside get_metrics ends the request in an error and
\* is never retried: the failed call is the request's last store call, no
\* value is returned, find_one and insert_one are each issued at most once,
\* and the step in which the call fails leaves both collections unchanged.
C6_FailureSurfaced ==
    /\ [](\A r \in Req : Metrics(r) =>
            /\ \A i \in DOMAIN calls[r] :
                 ~calls[r][i].ok =>
                   /\ i = Len(calls[r])
                   /\ pc[r] = "error"
                   /\ err[r] = "StoreUnavailable"
            /\ pc[r] = "error" => result[r] = None
            /\ \A i, j \in DOMAIN calls[r] : calls[r][i].op = calls[r][j].op => i = j)
    /\ [][\A r \in Req :
            (/\ Metrics(r)
             /\ Len(calls'[r]) > Len(calls[r])
             /\ ~calls'[r][Len(calls'[r])].ok) => store' = store]_vars

\* a get_metrics call whose insert_one failed after its find_one succeeded
C6_Witness ==
    \E r \in Req :
      /\ Metrics(r) /\ pc[r] = "error"
      /\ Ops(r) = <<"find_one", "insert_one">>
      /\ calls[r][1].ok /\ ~calls[r][2].ok
      /\ trust_metrics = <<>>

\* C7 as stated: every operation touches exactly one collection with
\* exactly one store call per request.
C7_Original ==
    \A r \in Req :
      pc[r] \in {"done", "error"} =>
        Len(calls[r]) = 1 /\ Cardinality(Collections(r)) = 1

\* C7 as amended: every request touches at most one collection and issues
\* at most one write; root issues no store call, create_status_check one
\* insert_one, get_status_checks one find, get_metrics one find_one followed
\* in the absent branch by one insert_one; each acknowledged write adds one
\* document, so no request ends with part of its store effects applied.
C7_OneEffect ==
    /\ \A r \in Req :
         /\ Cardinality(Collections(r)) <= 1
         /\ Cardinality(Writes(r)) <= 1
         /\ kind[r] = "root" => calls[r] = <<>>
         /\ kind[r] = "create_status_check" /\ Done(r) =>
              Ops(r) = <<"insert_one">> /\ Collections(r) = {"status_checks"}
         /\ kind[r] = "get_status_checks" /\ Done(r) =>
              Ops(r) = <<"find">> /\ Collections(r) = {"status_checks"}
         /\ Metrics(r) /\ Done(r) =>
              /\ Ops(r) \in {<<"find_one">>, <<"find_one", "insert_one">>}
              /\ Collections(r) = {"trust_metrics"}
    /\ Len(status_checks) + Len(trust_metrics) =
         (IF manual = None THEN 0 ELSE 1)
         + Cardinality({rw \in Req \X {1, 2} :
               /\ rw[2] \in Writes(rw[1])
               /\ calls[rw[1]][rw[2]].ok})

\* a get_metrics call that returned after two store calls
C7_Witness ==
    \E r \in Req :
      /\ Metrics(r) /\ Done(r)
      /\ Ops(r) = <<"find_one", "insert_one">>
      /\ \E q \in Req : kind[q] = "root" /\ Done(q)

\* C8: documents are only ever added: in every step each collection keeps
\* all the documents it held, unmodified and in place.
C8_AppendOnly ==
    [][/\ IsPrefix(status_checks, status_checks')
       /\ IsPrefix(trust_metrics, trust_metrics')]_vars

\* a collection that already held a document has received another one
C8_Witness ==
    \/ Len(status_checks) >= 2
    \/ Len(trust_metrics) >= 2

C10_Frame ==
    /\ [](\A r \in Req : ObservedPresent(r) => Len(calls[r]) = 1)
    /\ [][/\ \A r \in Req :
               (/\ pc'[r] # pc[r]
                /\ \/ kind'[r] \in {"root", "get_status_checks"}
                   \/ ObservedPresent(r)) => store' = store
          /\ (trust_metrics' # trust_metrics /\ trust_metrics # <<>>) =>
               \E r \in Req :
                 /\ ObservedAbsent(r)
                 /\ pc[r] = "insert_one" /\ pc'[r] = "inserted"]_vars

\* a call that found the default inserted by another call and returned it
C10_Witness ==
    /\ manual = None
    /\ \E r \in Req : ObservedPresent(r) /\ Done(r)
====
